---- MODULE Spec2Model ----
(***************************************************************************)
(* kindleclip2md.py: Kindle HTML notebook export -> Markdown.              *)
(*                                                                         *)
(* A Python string is modelled as a sequence of atoms.  An atom is a TLA+  *)
(* string standing for a run of characters that the program never looks    *)
(* inside: a word, a digit run, one punctuation character, one run of      *)
(* blanks (" ") or one line break ("\n").  The character '>' is always an   *)
(* atom of its own, so that the regex class [^>] is exact on atoms.         *)
(* String concatenation (f-strings, +) is \o.                               *)
(***************************************************************************)
EXTENDS Integers, Sequences, FiniteSets, TLC

VARIABLES
    pc,                       \* position of main()
    html_content,             \* main: the input file's content (element list)
    parsed_data,              \* main: result of parse_html_notebook
    sample_text_for_llm,      \* main: text handed to the completion service
    llm_response,             \* what the completion service did on the call
    llm_frontmatter_content,  \* main: result of generate_frontmatter_content_with_llm
    markdown_lines,           \* format_to_markdown: its list of lines at return
    markdown_output_content,  \* main: the string format_to_markdown returned
    outfile,                  \* the output file: written or not, and its content
    printed,                  \* diagnostics main() printed, in order
    trace                     \* the pipeline steps taken, in order

vars == <<pc, html_content, parsed_data, sample_text_for_llm, llm_response,
          llm_frontmatter_content, markdown_lines, markdown_output_content,
          outfile, printed, trace>>

-----------------------------------------------------------------------------
(* Bounds of the model *)

\* longest element sequence of an input document
MaxElems == 3

-----------------------------------------------------------------------------
(* Python values *)

\* Optional values: None / a string
None == [some |-> FALSE, val |-> <<>>]
Some(v) == [some |-> TRUE, val |-> v]
\* Python truthiness of an Optional[str]
Truthy(o) == o.some /\ o.val # <<>>

Min(S) == CHOOSE x \in S : \A y \in S : x <= y

\* str.isspace on one atom
IsSpace(a) == a \in {" ", "  ", "\n"}

RECURSIVE LStrip(_)
LStrip(s) == IF s # <<>> /\ IsSpace(Head(s)) THEN LStrip(Tail(s)) ELSE s

RECURSIVE RStrip(_)
RStrip(s) ==
    IF s # <<>> /\ IsSpace(s[Len(s)]) THEN RStrip(SubSeq(s, 1, Len(s) - 1)) ELSE s

\* str.strip()
Strip(s) == RStrip(LStrip(s))

\* sep.join(parts)
RECURSIVE Join(_, _)
Join(parts, sep) ==
    IF parts = <<>> THEN <<>>
    ELSE IF Len(parts) = 1 THEN parts[1]
    ELSE parts[1] \o sep \o Join(Tail(parts), sep)

\* s.split(sep) for a one-atom separator
RECURSIVE Split(_, _)
Split(s, sep) ==
    LET hits == {i \in 1..Len(s) : s[i] = sep} IN
    IF hits = {} THEN <<s>>
    ELSE LET i == Min(hits) IN
         <<SubSeq(s, 1, i - 1)>> \o Split(SubSeq(s, i + 1, Len(s)), sep)

\* len(s), counted in atoms
StrLen(s) == Len(s)

-----------------------------------------------------------------------------
(* The markup tree as BeautifulSoup hands it over: the list of the div and *)
(* hr elements in document order, all siblings.  An element's content is a *)
(* list of nodes: text atoms, and colour-marker span nodes.  An element    *)
(* has one class here (the class list of the library holds one name).      *)
(* The text atoms of a heading are the characters note_heading_regex is    *)
(* given; what the library's output formatter does to '<', '>' and '&' of  *)
(* a text node lies outside the source and is not modelled.                *)

SpanNodes == {"<span:yellow>"}
SpanColor(n) == "yellow"

Hr == [name |-> "hr", class |-> "", nodes |-> <<>>]
Div(c, ns) == [name |-> "div", class |-> c, nodes |-> ns]

\* element.decode_contents(): the markup of a span is kept
RECURSIVE DecodeContents(_)
DecodeContents(ns) ==
    IF ns = <<>> THEN <<>>
    ELSE (IF Head(ns) \in SpanNodes
          THEN <<"<span class=\"highlight_", SpanColor(Head(ns)), "\"", ">",
                 SpanColor(Head(ns)), "</span", ">">>
          ELSE <<Head(ns)>>) \o DecodeContents(Tail(ns))

\* element.text: the rendered text, a span gives its inner text
RECURSIVE ElementText(_)
ElementText(ns) ==
    IF ns = <<>> THEN <<>>
    ELSE (IF Head(ns) \in SpanNodes THEN <<SpanColor(Head(ns))>> ELSE <<Head(ns)>>)
         \o ElementText(Tail(ns))

-----------------------------------------------------------------------------
(* note_heading_regex *)

\* \w+ and \d+ on atoms: a word or digit run is one atom
DigitAtoms == {"4", "10", "34"}
WordAtoms == DigitAtoms \cup {"yellow", "Ch", "Highlight", "Note", "Page", "Location",
                              "Unknown", "Chapter", "t1", "t2", "S1"}

At(s, i) == IF i \in 1..Len(s) THEN s[i] ELSE "<end>"

\* \s* (greedy) from position i: the first position that is no blank
SkipWs(s, i) ==
    Min({j \in i..(Len(s) + 1) : j = Len(s) + 1 \/ ~IsSpace(s[j])})

\* \d+ (greedy) from position i: the first position after the digit run
DigitsEnd(s, i) ==
    Min({j \in i..(Len(s) + 1) : j = Len(s) + 1 \/ s[j] \notin DigitAtoms})

NoMatch == [ok |-> FALSE, color |-> None, chapter |-> <<>>, page |-> None,
            location |-> None]

\* (?:\(<span class="highlight_(?P<color>\w+)">\w+</span>\))? at position i
ColorGroup(s, i) ==
    IF /\ At(s, i) = "("
       /\ At(s, i + 1) = "<span class=\"highlight_"
       /\ At(s, i + 2) \in WordAtoms
       /\ At(s, i + 3) = "\""
       /\ At(s, i + 4) = ">"
       /\ At(s, i + 5) \in WordAtoms
       /\ At(s, i + 6) = "</span"
       /\ At(s, i + 7) = ">"
       /\ At(s, i + 8) = ")"
    THEN [ok |-> TRUE, color |-> Some(<<s[i + 2]>>), next |-> i + 9]
    ELSE [ok |-> FALSE, color |-> None, next |-> i]

\* (?:\s*Page\s*(?P<page>\d+))? at position i
PageGroup(s, i) ==
    LET p0 == SkipWs(s, i)
        p1 == SkipWs(s, p0 + 1)
        e == DigitsEnd(s, p1)
    IN IF At(s, p0) = "Page" /\ e > p1
       THEN [val |-> Some(SubSeq(s, p1, e - 1)), next |-> e]
       ELSE [val |-> None, next |-> i]

\* (?:\s*·\s*Location\s*(?P<location>\d+))? at position i
LocationGroup(s, i) ==
    LET q0 == SkipWs(s, i)
        q1 == SkipWs(s, q0 + 1)
        q2 == SkipWs(s, q1 + 1)
        e == DigitsEnd(s, q2)
    IN IF At(s, q0) = "·" /\ At(s, q1) = "Location" /\ e > q2
       THEN [val |-> Some(SubSeq(s, q2, e - 1)), next |-> e]
       ELSE [val |-> None, next |-> i]

\* the type alternative (Highlight|Note) at position i
TypeKeyword(s, i) == At(s, i) \in {"Highlight", "Note"}

\* MatchAt with the type group made optional, (Highlight|Note)?
MatchAtTypeOptional(s, i) ==
    LET a == IF TypeKeyword(s, i) THEN SkipWs(s, i + 1) ELSE SkipWs(s, i)
        cg == ColorGroup(s, a)
        b == SkipWs(s, cg.next)
        gts == {k \in (b + 1)..Len(s) : s[k] = ">"}
    IN IF i > Len(s) \/ At(s, b) # "-" \/ gts = {} \/ (b + 1) \in gts THEN NoMatch
       ELSE LET k == Min(gts)
                pg == PageGroup(s, k + 1)
                lg == LocationGroup(s, pg.next)
            IN [ok |-> TRUE, color |-> cg.color,
                chapter |-> SubSeq(s, b + 1, k - 1),
                page |-> pg.val, location |-> lg.val]

\* one attempt of the pattern at start position i
MatchAt(s, i) ==
    IF ~TypeKeyword(s, i) THEN NoMatch
    ELSE LET a == SkipWs(s, i + 1)
             cg == ColorGroup(s, a)
             b == SkipWs(s, cg.next)
             gts == {k \in (b + 1)..Len(s) : s[k] = ">"}
         IN \* -\s*(?P<chapter>[^>]+?)\s*> : at least one character before
            \* the first '>' after the dash
            IF At(s, b) # "-" \/ gts = {} \/ (b + 1) \in gts THEN NoMatch
            ELSE LET k == Min(gts)
                     pg == PageGroup(s, k + 1)
                     lg == LocationGroup(s, pg.next)
                 IN [ok |-> TRUE, color |-> cg.color,
                     chapter |-> SubSeq(s, b + 1, k - 1),
                     page |-> pg.val, location |-> lg.val]

\* note_heading_regex.search(s): the leftmost start position that matches
RegexSearch(s) ==
    LET starts == {i \in 1..Len(s) : MatchAt(s, i).ok} IN
    IF starts = {} THEN NoMatch ELSE MatchAt(s, Min(starts))

-----------------------------------------------------------------------------
(* parse_html_notebook *)

\* soup.find("div", class_=c): index of the first such element, 0 when none
SoupFind(elems, c) ==
    LET hits == {i \in 1..Len(elems) : elems[i].name = "div" /\ elems[i].class = c}
    IN IF hits = {} THEN 0 ELSE Min(hits)

\* element.find_next_sibling("div", class_=c): index of the first later
\* sibling of that class, 0 when none
FindNextSibling(elems, i, c) ==
    LET hits == {j \in (i + 1)..Len(elems) :
                    elems[j].name = "div" /\ elems[j].class = c}
    IN IF hits = {} THEN 0 ELSE Min(hits)

\* The note dicts.  One record shape for the three types; the keys a type
\* does not carry hold EmptyNote's values and are never read for that type.
EmptyNote == [type |-> "", text |-> <<>>, color |-> <<>>, chapter |-> <<>>,
              page |-> None, location |-> None, original_heading |-> <<>>]

SectionHeaderNote(el) ==
    [EmptyNote EXCEPT !.type = "section_header",
                      !.text = Strip(ElementText(el.nodes))]

\* the record built from the noteHeading element at index i
NoteHeadingNote(elems, i) ==
    LET heading_text_content == Strip(DecodeContents(elems[i].nodes))
        note_text_tag == FindNextSibling(elems, i, "noteText")
        text_content == IF note_text_tag # 0
                        THEN Strip(ElementText(elems[note_text_tag].nodes))
                        ELSE <<>>
        data == RegexSearch(heading_text_content)
    IN IF data.ok
       THEN [type |-> "highlight",
             color |-> IF Truthy(data.color) THEN data.color.val ELSE <<"no_color">>,
             chapter |-> Strip(data.chapter),
             page |-> data.page,
             location |-> data.location,
             text |-> text_content,
             original_heading |-> Strip(ElementText(elems[i].nodes))]
       ELSE [EmptyNote EXCEPT !.type = "unknown_heading_format",
                              !.original_heading = Strip(ElementText(elems[i].nodes)),
                              !.text = text_content]

\* WalkFrom without the noteHeading class test: every div that is no
\* section heading is taken for a note heading
RECURSIVE WalkFromAnyDiv(_, _)
WalkFromAnyDiv(elems, i) ==
    IF i > Len(elems) THEN <<>>
    ELSE (IF elems[i].name = "hr" THEN <<>>
          ELSE IF elems[i].class = "sectionHeading" THEN <<SectionHeaderNote(elems[i])>>
          ELSE <<NoteHeadingNote(elems, i)>>)
         \o WalkFromAnyDiv(elems, i + 1)

\* the loop over soup.find_all(["div", "hr"]), from element i on
RECURSIVE WalkFrom(_, _)
WalkFrom(elems, i) ==
    IF i > Len(elems) THEN <<>>
    ELSE (IF elems[i].name = "hr" THEN <<>>
          ELSE IF elems[i].class = "sectionHeading" THEN <<SectionHeaderNote(elems[i])>>
          ELSE IF elems[i].class = "noteHeading" THEN <<NoteHeadingNote(elems, i)>>
          ELSE <<>>)
         \o WalkFrom(elems, i + 1)

parse_html_notebook(elems) ==
    LET book_title_tag == SoupFind(elems, "bookTitle")
        authors_tag == SoupFind(elems, "authors")
    IN [book_title |-> IF book_title_tag # 0
                       THEN Strip(ElementText(elems[book_title_tag].nodes))
                       ELSE <<"Unknown Title">>,
        author |-> IF authors_tag # 0
                   THEN Strip(ElementText(elems[authors_tag].nodes))
                   ELSE <<"Unknown Author">>,
        notes |-> WalkFrom(elems, 1)]

-----------------------------------------------------------------------------
(* generate_frontmatter_content_with_llm *)

\* JSON / Python values a frontmatter key can hold
JNull == [t |-> "null", s |-> <<>>, l |-> <<>>]
JNumber == [t |-> "number", s |-> <<>>, l |-> <<>>]
JStr(s) == [t |-> "string", s |-> s, l |-> <<>>]
JList(l) == [t |-> "list", s |-> <<>>, l |-> l]

\* What the completion service did:
\*   raise       an exception inside the outer try (import, client, credentials,
\*               transport, empty content)
\*   not_json    text for which json.loads raises JSONDecodeError
\*   json_other  text that is JSON but no object (a list, a string, null ...)
\*   json_object text that is a JSON object; hasTags/hasDescription say which
\*               keys it holds
Response(kind, content, hasTags, tags, hasDescription, description) ==
    [kind |-> kind, content |-> content, hasTags |-> hasTags, tags |-> tags,
     hasDescription |-> hasDescription, description |-> description]

FallbackFrontmatter ==
    [tags |-> JList(<<<<"untagged">>, <<"needs_review">>>>),
     description |-> JStr(<<"Description to be generated or manually entered.">>)]

generate_frontmatter_content_with_llm(book_title, sample_highlights_text, r) ==
    CASE r.kind = "json_object" ->
            [tags |-> IF r.hasTags THEN r.tags ELSE JList(<<<<"llm_generated_tag">>>>),
             description |-> IF r.hasDescription THEN r.description
                             ELSE JStr(<<"LLM generated description.">>)]
      [] r.kind = "not_json" ->
            [tags |-> JList(<<<<"error_parsing_llm_tags">>>>),
             description |-> JStr(<<"Error parsing description. Raw: ">> \o r.content)]
         \* json_other: llm_output.get raises AttributeError, caught by the
         \* outer except like every other exception
      [] OTHER -> FallbackFrontmatter

-----------------------------------------------------------------------------
(* format_to_markdown *)

UnknownChapter == <<"Unknown", " ", "Chapter">>

\* iterating llm_frontmatter["tags"]: a list gives its items, a str its
\* characters; None and numbers are not iterable (TypeError)
TagsIterable(tags) == tags.t \in {"list", "string"}
TagItems(tags) ==
    IF tags.t = "list" THEN tags.l ELSE [i \in 1..Len(tags.s) |-> <<tags.s[i]>>]

\* '"\n" in description_text' raises TypeError on None and on numbers
DescriptionSearchable(d) == d.t = "string"

FrontmatterLines(parsed, fm) ==
    <<  <<"---">>,
        <<"bookTitle", ":", " ", "\"">> \o parsed.book_title \o <<"\"">>,
        <<"author", ":", " ", "\"">> \o parsed.author \o <<"\"">>,
        <<"tags", ":">> >>
    \o [i \in 1..Len(TagItems(fm.tags)) |-> <<"  ", "-", " ">> \o TagItems(fm.tags)[i]]
    \o (IF "\n" \in {fm.description.s[i] : i \in 1..Len(fm.description.s)}
        THEN <<  <<"description", ":", " ", "|">> >>
             \o [i \in 1..Len(Split(fm.description.s, "\n")) |->
                    <<"  ">> \o Split(fm.description.s, "\n")[i]]
        ELSE <<  <<"description", ":", " ", "\"">> \o fm.description.s \o <<"\"">> >>)
    \o <<  <<"---">>, <<>>  >>

TitleLine(parsed) == <<"#", " ", "\"">> \o parsed.book_title \o <<"\"">>

\* HeadingParts without the "Unknown Chapter" test
HeadingPartsNoSentinel(n) ==
    (IF n.chapter # <<>> THEN <<n.chapter>> ELSE <<>>)
    \o (IF Truthy(n.page) THEN <<  <<"Page", " ">> \o n.page.val >> ELSE <<>>)
    \o (IF Truthy(n.location) THEN <<  <<"Location", " ">> \o n.location.val >> ELSE <<>>)

\* heading_parts_list of a highlight note
HeadingParts(n) ==
    (IF n.chapter # <<>> /\ n.chapter # UnknownChapter THEN <<n.chapter>> ELSE <<>>)
    \o (IF Truthy(n.page) THEN <<  <<"Page", " ">> \o n.page.val >> ELSE <<>>)
    \o (IF Truthy(n.location) THEN <<  <<"Location", " ">> \o n.location.val >> ELSE <<>>)

HighlightTitleLine(n) ==
    <<"###", " ">>
    \o (IF n.color # <<>> /\ n.color # <<"no_color">>
        THEN <<"Highlight", " ", "(">> \o n.color \o <<")">>
        ELSE <<"Note">>)
    \o <<" ", "-", " ">>
    \o (IF HeadingParts(n) # <<>>
        THEN Join(HeadingParts(n), <<" ", "·", " ">>)
        ELSE n.original_heading)

TextLines(n) == IF n.text # <<>> THEN <<  <<">", " ">> \o n.text >> ELSE <<>>

\* NoteLines without the unknown_heading_format branch
NoteLinesDropUnknown(n) ==
    IF n.type = "section_header"
    THEN <<  <<"##", " ">> \o n.text, <<>>  >>
    ELSE IF n.type = "highlight"
    THEN <<HighlightTitleLine(n)>> \o TextLines(n) \o << <<>> >>
    ELSE <<>>

\* the lines the loop body appends for one note
NoteLines(n) ==
    IF n.type = "section_header"
    THEN <<  <<"##", " ">> \o n.text, <<>>  >>
    ELSE IF n.type = "highlight"
    THEN <<HighlightTitleLine(n)>> \o TextLines(n) \o << <<>> >>
    ELSE IF n.type = "unknown_heading_format"
    THEN <<  <<"###", " ", "Note", " ", "-", " ">> \o n.original_heading >>
         \o TextLines(n) \o << <<>> >>
    ELSE <<>>

RECURSIVE NotesLines(_)
NotesLines(notes) ==
    IF notes = <<>> THEN <<>> ELSE NoteLines(Head(notes)) \o NotesLines(Tail(notes))

\* markdown_lines when format_to_markdown returns
MarkdownLines(parsed, fm) ==
    FrontmatterLines(parsed, fm) \o <<TitleLine(parsed)>> \o NotesLines(parsed.notes)

\* format_to_markdown raises TypeError before it returns
FormatRaises(fm) == ~TagsIterable(fm.tags) \/ ~DescriptionSearchable(fm.description)

format_to_markdown(parsed, fm) == Join(MarkdownLines(parsed, fm), <<"\n">>)

-----------------------------------------------------------------------------
(* Inputs *)

\* heading contents of the documents: matched with every token, not
\* matched, matched with a blank chapter
DocHeadings ==
    { <<"Highlight", "(", "<span:yellow>", ")", " ", "-", " ", "Ch", " ", ">", " ",
        "Page", " ", "4", " ", "·", " ", "Location", " ", "34">>,
      <<"Ch", " ", "Page", " ", "4">>,
      <<"Note", " ", "-", " ", ">">> }

ElemChoices ==
    { Hr,
      Div("sectionHeading", <<"S1">>),
      Div("noteText", <<" ", "t1", " ">>),
      Div("noteText", <<"t2">>),
      Div("bookTitle", <<"T">>),
      Div("bookTitle", <<"T", "\"", "x">>),
      Div("authors", <<"A">>) }
    \cup { Div("noteHeading", h) : h \in DocHeadings }

Docs == UNION { [1..n -> ElemChoices] : n \in 0..MaxElems }

\* the heading strings built from the pattern's parts, each part present or
\* absent (the chapter part also blank, and holding the sentinel's words)
HeadingFamily ==
    { kw \o col \o ch \o pg \o dot \o loc :
        kw \in { <<>>, <<"Highlight">>, <<"Note">> },
        col \in { <<>>, <<"(", "<span:yellow>", ")">> },
        ch \in { <<>>, <<" ", "-", " ", "Ch", " ", ">">>, <<" ", "-", " ", ">">>,
                 <<" ", "-", " ", "Unknown", " ", "Chapter", " ", ">">> },
        pg \in { <<>>, <<" ", "Page", " ", "4">> },
        dot \in { <<>>, <<" ", "·">> },
        loc \in { <<>>, <<" ", "Location", " ", "34">> } }

HeadingDocs == { << Div("noteHeading", h) >> : h \in HeadingFamily }

InputDocuments == Docs \cup HeadingDocs

TagsValues == { JList(<< <<"t1">>, <<"t2">> >>), JNull, JNumber, JStr(<<"t1">>) }
DescriptionValues == { JStr(<<"d">>), JStr(<<"d", "\n", "e">>), JNull, JNumber }

Responses ==
    { Response("raise", <<>>, FALSE, JNull, FALSE, JNull),
      Response("not_json", <<"Sorry">>, FALSE, JNull, FALSE, JNull),
      Response("json_other", <<"[]">>, FALSE, JNull, FALSE, JNull) }
    \cup { Response("json_object", <<"{}">>, ht, IF ht THEN t ELSE JNull,
                    hd, IF hd THEN d ELSE JNull) :
             ht \in BOOLEAN, t \in TagsValues, hd \in BOOLEAN, d \in DescriptionValues }

-----------------------------------------------------------------------------
(* main *)

MAX_SAMPLE_TEXT_LENGTH == 1000

NoResponse == Response("none", <<>>, FALSE, JNull, FALSE, JNull)
NoFrontmatter == [tags |-> JNull, description |-> JNull]
NoParsedData == [book_title |-> <<>>, author |-> <<>>, notes |-> <<>>]
NoFile == [written |-> FALSE, content |-> <<>>]

Init ==
    /\ pc = "read"
    /\ html_content = <<>>
    /\ parsed_data = NoParsedData
    /\ sample_text_for_llm = <<>>
    /\ llm_response = NoResponse
    /\ llm_frontmatter_content = NoFrontmatter
    /\ markdown_lines = <<>>
    /\ markdown_output_content = <<>>
    /\ outfile = NoFile
    /\ printed = <<>>
    /\ trace = <<>>

\* ReadFailure without the return: main() goes on to the parse
ReadFailureNoReturn(why) ==
    /\ pc' = "parse"
    /\ printed' = Append(printed, why)
    /\ UNCHANGED html_content

\* what the read of the input file does on a failure
ReadFailure(why) ==
    /\ pc' = "done"
    /\ printed' = Append(printed, why)
    /\ UNCHANGED html_content

\* open(input) + f.read(): success, FileNotFoundError, any other exception
ReadInput ==
    /\ pc = "read"
    /\ trace' = Append(trace, "read")
    /\ \/ \E d \in InputDocuments :
             /\ html_content' = d
             /\ pc' = "parse"
             /\ UNCHANGED printed
       \/ ReadFailure("input_not_found")
       \/ ReadFailure("read_error")
    /\ UNCHANGED <<parsed_data, sample_text_for_llm, llm_response,
                   llm_frontmatter_content, markdown_lines,
                   markdown_output_content, outfile>>

ParseStep ==
    /\ pc = "parse"
    /\ parsed_data' = parse_html_notebook(html_content)
    /\ trace' = Append(trace, "walk")
    /\ pc' = "sample"
    /\ UNCHANGED <<html_content, sample_text_for_llm, llm_response,
                   llm_frontmatter_content, markdown_lines,
                   markdown_output_content, outfile, printed>>

\* all_highlight_texts joined by "\n\n", cut to MAX_SAMPLE_TEXT_LENGTH
SampleText(notes) ==
    LET all_highlight_texts == [i \in 1..Len(notes) |-> notes[i].text]
        joined == Join(all_highlight_texts, <<"\n", "\n">>)
    IN IF StrLen(joined) > MAX_SAMPLE_TEXT_LENGTH
       THEN SubSeq(joined, 1, MAX_SAMPLE_TEXT_LENGTH) \o <<"\n", "... (truncated)">>
       ELSE joined

SampleStep ==
    /\ pc = "sample"
    /\ sample_text_for_llm' = SampleText(parsed_data.notes)
    /\ printed' = IF SampleText(parsed_data.notes) = <<>>
                  THEN Append(printed, "no_highlight_text") ELSE printed
    /\ pc' = "llm"
    /\ UNCHANGED <<html_content, parsed_data, llm_response, llm_frontmatter_content,
                   markdown_lines, markdown_output_content, outfile, trace>>

LlmStep ==
    /\ pc = "llm"
    /\ \E r \in Responses :
          /\ llm_response' = r
          /\ llm_frontmatter_content' =
                generate_frontmatter_content_with_llm(parsed_data.book_title,
                                                      sample_text_for_llm, r)
    /\ trace' = Append(trace, "service")
    /\ pc' = "format"
    /\ UNCHANGED <<html_content, parsed_data, sample_text_for_llm, markdown_lines,
                   markdown_output_content, outfile, printed>>

\* format_to_markdown returns, or its TypeError leaves main() unhandled
FormatStep ==
    /\ pc = "format"
    /\ trace' = Append(trace, "format")
    /\ IF FormatRaises(llm_frontmatter_content)
       THEN /\ pc' = "fault"
            /\ UNCHANGED <<markdown_lines, markdown_output_content>>
       ELSE /\ markdown_lines' = MarkdownLines(parsed_data, llm_frontmatter_content)
            /\ markdown_output_content' =
                  format_to_markdown(parsed_data, llm_frontmatter_content)
            /\ pc' = "write"
    /\ UNCHANGED <<html_content, parsed_data, sample_text_for_llm, llm_response,
                   llm_frontmatter_content, outfile, printed>>

\* open(output, "w") + f.write: success, or any exception
WriteStep ==
    /\ pc = "write"
    /\ trace' = Append(trace, "write")
    /\ \/ /\ outfile' = [written |-> TRUE, content |-> markdown_output_content]
          /\ printed' = Append(printed, "success")
       \/ /\ printed' = Append(printed, "write_error")
          /\ UNCHANGED outfile
    /\ pc' = "done"
    /\ UNCHANGED <<html_content, parsed_data, sample_text_for_llm, llm_response,
                   llm_frontmatter_content, markdown_lines, markdown_output_content>>

Next == ReadInput \/ ParseStep \/ SampleStep \/ LlmStep \/ FormatStep \/ WriteStep

Spec == Init /\ [][Next]_vars

-----------------------------------------------------------------------------
(* Vocabulary of the properties *)

Range(s) == { s[i] : i \in 1..Len(s) }

HasPrefix(s, p) == Len(s) >= Len(p) /\ SubSeq(s, 1, Len(p)) = p
Drop(s, n) == SubSeq(s, n + 1, Len(s))

Walked == "walk" \in Range(trace)
Sampled == Walked /\ pc # "sample"
Called == "service" \in Range(trace)
Formatted == "format" \in Range(trace) /\ pc # "fault"
ReadFailed == Range(printed) \cap {"input_not_found", "read_error"} # {}

\* indexes of the elements the walk turns into records, in document order
RecordElems(elems) ==
    SelectSeq([i \in 1..Len(elems) |-> i],
              LAMBDA i : elems[i].name = "div"
                         /\ elems[i].class \in {"sectionHeading", "noteHeading"})

HeadingIndexes(elems) ==
    { i \in 1..Len(elems) : elems[i].name = "div" /\ elems[i].class = "noteHeading" }

\* the blocks of the rendered lines after the title line: the title line is
\* the second line after the metadata block's closing "---"; a block runs to
\* its first blank line, which ends it
ClosingDelimiter(lines) == Min({ i \in 2..Len(lines) : lines[i] = <<"---">> })
BodyLines(lines) == SubSeq(lines, ClosingDelimiter(lines) + 3, Len(lines))

RECURSIVE Blocks(_)
Blocks(ls) ==
    LET blanks == { i \in 1..Len(ls) : ls[i] = <<>> } IN
    IF ls = <<>> THEN <<>>
    ELSE IF blanks = {} THEN << [lines |-> ls, closed |-> FALSE] >>
    ELSE << [lines |-> SubSeq(ls, 1, Min(blanks) - 1), closed |-> TRUE] >>
         \o Blocks(Drop(ls, Min(blanks)))

-----------------------------------------------------------------------------
(* C1 *)

WellFormedAnswer(r) ==
    /\ r.kind = "json_object"
    /\ r.hasTags /\ r.tags.t = "list"
    /\ r.hasDescription /\ r.description.t = "string"

\* C1: whenever the completion-service call failed or answered with
\* something that is not a JSON object holding a 'tags' list and a
\* 'description' string, the frontmatter returned is exactly the fixed
\* fallback (tags untagged/needs_review and the placeholder description).
C1_FallbackOnFailureOrMalformed ==
    (Called /\ ~WellFormedAnswer(llm_response))
        => llm_frontmatter_content = FallbackFrontmatter

-----------------------------------------------------------------------------
(* C2 *)

\* C2: a run whose input file was read, and which has ended, has reached the
\* write of the output file, whatever the completion service did; it never
\* ends in an unhandled fault before the write.
C2_ReadRunReachesWrite ==
    (Walked /\ pc \in {"done", "fault"}) => "write" \in Range(trace)

-----------------------------------------------------------------------------
(* C3 *)

\* first position after heading i that is a noteHeading, a sectionHeading or
\* an hr separator (the end of the list when there is none)
NextBoundary(elems, i) ==
    Min({ j \in (i + 1)..(Len(elems) + 1) :
            \/ j = Len(elems) + 1
            \/ elems[j].name = "hr"
            \/ elems[j].class \in {"noteHeading", "sectionHeading"} })

\* the text block that belongs to heading i: the first noteText before the
\* next boundary, stripped; empty when there is none
OwnText(elems, i) ==
    LET own == { j \in (i + 1)..(NextBoundary(elems, i) - 1) :
                    elems[j].class = "noteText" }
    IN IF own = {} THEN <<>> ELSE Strip(ElementText(elems[Min(own)].nodes))

\* C3: the text of every record built from a noteHeading element is the text
\* of the noteText element that follows the heading before the next
\* noteHeading, sectionHeading or hr, and is empty when there is none.
C3_TextIsOwnBlock ==
    Walked =>
        \A k \in 1..Len(RecordElems(html_content)) :
            LET i == RecordElems(html_content)[k] IN
            html_content[i].class = "noteHeading"
                => /\ k <= Len(parsed_data.notes)
                   /\ parsed_data.notes[k].text = OwnText(html_content, i)

-----------------------------------------------------------------------------
(* C4 *)

\* a heading string without type keyword and without colour marker whose
\* chapter part "- <chapter> >" is well formed
KeywordlessHeading(h) ==
    /\ Range(h) \cap {"Highlight", "Note"} = {}
    /\ Range(h) \cap SpanNodes = {}
    /\ \E i \in 1..Len(h) : \E k \in (i + 2)..Len(h) :
          /\ h[i] = "-" /\ h[k] = ">"
          /\ \A j \in (i + 1)..(k - 1) : h[j] # ">"
          /\ \E j \in (i + 1)..(k - 1) : ~IsSpace(h[j])

\* the document is one noteHeading element
SingleHeading == Len(html_content) = 1 /\ HeadingIndexes(html_content) = {1}

\* C4 (as claimed): a keywordless, colourless heading with a well-formed
\* chapter part is matched: it gives a 'highlight' record with color
\* "no_color" and its chapter parsed.
C4_KeywordOptional ==
    (Walked /\ SingleHeading /\ KeywordlessHeading(html_content[1].nodes))
        => /\ parsed_data.notes[1].type = "highlight"
           /\ parsed_data.notes[1].color = <<"no_color">>
           /\ parsed_data.notes[1].chapter # <<>>

\* C4 (amended): the type keyword is mandatory: every heading without
\* 'Highlight' and without 'Note' gives an unknown_heading_format record
\* that carries the heading's plain text, and the formatter renders that
\* record with the label "Note" followed by the plain heading text.
C4_KeywordMandatory ==
    (Walked /\ SingleHeading
       /\ Range(html_content[1].nodes) \cap {"Highlight", "Note"} = {})
        => /\ parsed_data.notes[1].type = "unknown_heading_format"
           /\ parsed_data.notes[1].original_heading
                 = Strip(ElementText(html_content[1].nodes))
           /\ Formatted =>
                 Blocks(BodyLines(markdown_lines))[1].lines[1]
                    = <<"###", " ", "Note", " ", "-", " ">>
                      \o Strip(ElementText(html_content[1].nodes))

C4_Witness ==
    /\ Formatted /\ SingleHeading
    /\ KeywordlessHeading(html_content[1].nodes)
    /\ "Page" \in Range(html_content[1].nodes)
    /\ parsed_data.notes[1].type = "unknown_heading_format"

-----------------------------------------------------------------------------
(* C5 *)

\* the heading string holds the token "<word> N"
HasToken(h, word) ==
    \E i \in 1..Len(h) :
        h[i] = word /\ DigitsEnd(h, SkipWs(h, i + 1)) > SkipWs(h, i + 1)

\* C5: for a heading with type keyword and a non-blank chapter part (a
\* matched heading), colour, page and location are each extracted exactly
\* when present in the heading, whatever the other two.
C5_IndependentCapture ==
    (Walked /\ SingleHeading /\ parsed_data.notes[1].type = "highlight"
            /\ parsed_data.notes[1].chapter # <<>>)
        => LET h == html_content[1].nodes
               n == parsed_data.notes[1]
           IN /\ (n.color # <<"no_color">>) <=> (Range(h) \cap SpanNodes # {})
              /\ Truthy(n.page) <=> HasToken(h, "Page")
              /\ Truthy(n.location) <=> HasToken(h, "Location")

-----------------------------------------------------------------------------
(* C6 *)

\* the rendered lines are the metadata block, its blank line and the title
\* line, and nothing else
OnlyMetadataAndTitle(lines, title) ==
    /\ Len(lines) = ClosingDelimiter(lines) + 2
    /\ lines[1] = <<"---">>
    /\ lines[Len(lines) - 1] = <<>>
    /\ lines[Len(lines)] = <<"#", " ", "\"">> \o title \o <<"\"">>

NoClass(elems, c) == \A i \in 1..Len(elems) : elems[i].class # c

-----------------------------------------------------------------------------
(* C7 *)

\* Re-parsing the metadata block as YAML, as a consuming tool does: the
\* lines between the two "---" delimiters of the written text.
MetadataBlock(text) ==
    LET ls == Split(text, "\n") IN SubSeq(ls, 2, ClosingDelimiter(ls) - 1)

BadScalar == [ok |-> FALSE, val |-> <<>>]
GoodScalar(v) == [ok |-> TRUE, val |-> v]

\* a double-quoted flow scalar: it ends at the next '"'; only blanks may follow
YamlQuoted(rest) ==
    LET closes == { i \in 2..Len(rest) : rest[i] = "\"" } IN
    IF rest = <<>> \/ rest[1] # "\"" \/ closes = {} THEN BadScalar
    ELSE IF Strip(Drop(rest, Min(closes))) # <<>> THEN BadScalar
    ELSE GoodScalar(SubSeq(rest, 2, Min(closes) - 1))

\* a plain scalar of a list item: surrounding blanks are dropped; ": " opens
\* a mapping and a leading '"' a quoted scalar, neither is the plain string
YamlPlain(rest) ==
    LET v == Strip(rest) IN
    IF v = <<>> \/ v[1] = "\"" \/ v[Len(v)] = ":"
       \/ \E i \in 1..(Len(v) - 1) : v[i] = ":" /\ IsSpace(v[i + 1])
    THEN BadScalar ELSE GoodScalar(v)

\* the value of key on its line
YamlKeyQuoted(line, key) ==
    IF HasPrefix(line, <<key, ":", " ">>) THEN YamlQuoted(Drop(line, 3)) ELSE BadScalar

TagPrefix == <<"  ", "-", " ">>

\* the number of list-item lines from line 4 on
YamlTagCount(block) ==
    Min({ n \in 0..Len(block) :
            4 + n > Len(block) \/ ~HasPrefix(block[4 + n], TagPrefix) })

\* a literal block scalar ("|", clip chomping): the indented lines joined by
\* line breaks, with one final line break
YamlLiteral(ls) ==
    IF ls = <<>> \/ \E i \in 1..Len(ls) : ~HasPrefix(ls[i], <<"  ">>) THEN BadScalar
    ELSE GoodScalar(Join([i \in 1..Len(ls) |-> Drop(ls[i], 1)], <<"\n">>) \o <<"\n">>)

YamlDescription(ls) ==
    IF ls = <<>> THEN BadScalar
    ELSE IF ls[1] = <<"description", ":", " ", "|">> THEN YamlLiteral(Tail(ls))
    ELSE IF Len(ls) = 1 THEN YamlKeyQuoted(ls[1], "description")
    ELSE BadScalar

YamlLoad(block) ==
    IF Len(block) < 4 \/ block[3] # <<"tags", ":">>
    THEN [ok |-> FALSE, title |-> <<>>, author |-> <<>>, tags |-> <<>>,
          description |-> <<>>]
    ELSE LET n == YamlTagCount(block)
             items == [i \in 1..n |-> YamlPlain(Drop(block[3 + i], 3))]
             t == YamlKeyQuoted(block[1], "bookTitle")
             a == YamlKeyQuoted(block[2], "author")
             d == YamlDescription(Drop(block, 3 + n))
         IN [ok |-> t.ok /\ a.ok /\ d.ok /\ \A i \in 1..n : items[i].ok,
             title |-> t.val, author |-> a.val,
             tags |-> [i \in 1..n |-> items[i].val],
             description |-> d.val]

\* C7: for a frontmatter with a tag list and a description string,
\* re-parsing the metadata block of the formatted text gives back the same
\* title, author, tag list (in order) and description.
C7_MetadataRoundTrip ==
    (Formatted /\ llm_frontmatter_content.tags.t = "list"
               /\ llm_frontmatter_content.description.t = "string")
        => LET y == YamlLoad(MetadataBlock(markdown_output_content)) IN
           /\ y.ok
           /\ y.title = parsed_data.book_title
           /\ y.author = parsed_data.author
           /\ y.tags = llm_frontmatter_content.tags.l
           /\ y.description = llm_frontmatter_content.description.s

-----------------------------------------------------------------------------
(* C8 *)

\* block ls is the rendering of note n
BlockRenders(ls, n) ==
    IF n.type = "section_header" THEN ls = <<  <<"##", " ">> \o n.text >>
    ELSE /\ Len(ls) = IF n.text # <<>> THEN 2 ELSE 1
         /\ HasPrefix(ls[1], <<"###", " ">>)
         /\ n.type = "unknown_heading_format"
               => ls[1] = <<"###", " ", "Note", " ", "-", " ">> \o n.original_heading
         /\ n.text # <<>> => ls[2] = <<">", " ">> \o n.text

\* C8: after the metadata block and the title line the formatter emits
\* exactly one block per record, in the order of the records, the k-th block
\* rendering the k-th record, and every block ends with a blank line.
C8_OneBlockPerRecord ==
    Formatted =>
        LET bs == Blocks(BodyLines(markdown_lines))
            ns == parsed_data.notes
        IN /\ markdown_lines[ClosingDelimiter(markdown_lines) + 2]
                 = <<"#", " ", "\"">> \o parsed_data.book_title \o <<"\"">>
           /\ Len(bs) = Len(ns)
           /\ \A k \in 1..Len(bs) : bs[k].closed /\ BlockRenders(bs[k].lines, ns[k])

C8_Witness ==
    /\ Formatted
    /\ Len(parsed_data.notes) = 3
    /\ { parsed_data.notes[k].type : k \in 1..3 }
          = {"section_header", "highlight", "unknown_heading_format"}
    /\ Len(Blocks(BodyLines(markdown_lines))) = 3

-----------------------------------------------------------------------------
(* C9 *)

PipelineOrder == <<"read", "walk", "service", "format", "write">>

\* C9: the steps happen in the order read, walk, service call, format,
\* write; after a failed read the run has ended with one diagnostic and
\* nothing else has happened: no walk, no service call, no output file, no
\* success message.
C9_ReadFailureAborts ==
    /\ HasPrefix(PipelineOrder, trace)
    /\ ReadFailed =>
          /\ pc = "done"
          /\ trace = <<"read">>
          /\ Len(printed) = 1
          /\ parsed_data = NoParsedData
          /\ llm_response = NoResponse
          /\ outfile = NoFile
    /\ (Called \/ outfile.written) => (~ReadFailed /\ Walked)

C9_Witness == pc = "done" /\ printed = <<"read_error">> /\ ~outfile.written

-----------------------------------------------------------------------------
(* C10 *)

MiddleDot == <<" ", "·", " ">>

\* the descriptor of a highlight record, by the pieces present
Descriptor(n) ==
    LET c == n.chapter # <<>> /\ n.chapter # UnknownChapter
        p == n.page.some
        l == n.location.some
        P == <<"Page", " ">> \o n.page.val
        L == <<"Location", " ">> \o n.location.val
    IN CASE c /\ p /\ l -> n.chapter \o MiddleDot \o P \o MiddleDot \o L
         [] c /\ p /\ ~l -> n.chapter \o MiddleDot \o P
         [] c /\ ~p /\ l -> n.chapter \o MiddleDot \o L
         [] c /\ ~p /\ ~l -> n.chapter
         [] ~c /\ p /\ l -> P \o MiddleDot \o L
         [] ~c /\ p /\ ~l -> P
         [] ~c /\ ~p /\ l -> L
         [] OTHER -> n.original_heading

Label(n) ==
    IF n.color # <<"no_color">> THEN <<"Highlight", " ", "(">> \o n.color \o <<")">>
    ELSE <<"Note">>

\* C10: the heading line of every highlight record is
\* '### <label> - <descriptor>', and the descriptor is never empty.
C10_HighlightHeadingLine ==
    Formatted =>
        \A k \in 1..Len(parsed_data.notes) :
            LET n == parsed_data.notes[k] IN
            n.type = "highlight" =>
                /\ k <= Len(Blocks(BodyLines(markdown_lines)))
                /\ Blocks(BodyLines(markdown_lines))[k].lines[1]
                      = <<"###", " ">> \o Label(n) \o <<" ", "-", " ">> \o Descriptor(n)
                /\ Descriptor(n) # <<>>

C10_Witness ==
    /\ Formatted /\ SingleHeading
    /\ parsed_data.notes[1].type = "highlight"
    /\ parsed_data.notes[1].chapter = UnknownChapter
    /\ ~parsed_data.notes[1].page.some /\ ~parsed_data.notes[1].location.some
    /\ Blocks(BodyLines(markdown_lines))[1].lines[1]
          = <<"###", " ", "Note", " ", "-", " ">> \o parsed_data.notes[1].original_heading

====
